---- MODULE Spec2Model ----
(***************************************************************************)
(* Movable-tree CRDT: the replica facade MovableTree<T> (src/src/lib.rs),  *)
(* Algorithm-M MartinTree (src/src/martin.rs), Algorithm-E EvanTree        *)
(* (src/src/evan.rs) and the lock-step Actor of src/src/fuzz.rs.           *)
(*                                                                         *)
(* Option<NodeID>::None is the record NoneID.  A HashMap is a function     *)
(* whose DOMAIN is its key set.  A panic (unwrap, assert!, unreachable!,   *)
(* panic!, expect) or a walk that never returns ends the run: the variable *)
(* `panicked` names it and no further call is made.                        *)
(***************************************************************************)
EXTENDS Integers, Sequences, FiniteSets, TLC

\* Bounds of the model: replicas, Create ops and Move ops issued in a run, and
\* the largest counter a logged Move can carry.
NumPeers == 2
MaxCreate == 2
MaxMove == 2
MaxCounter == 1

Peers == 0 .. (NumPeers - 1)

\* lib.rs:10-13.  u32::MAX / u64::MAX are written as the largest integer the
\* checker represents; all that the code uses of them is that ROOT_ID is
\* greater than every ID a replica allocates.
ROOT_ID == [lamport |-> 2147483647, peer |-> 2147483647]

\* Option::None of an Option<NodeID>.
NoneID == [lamport |-> -1, peer |-> -1]

\* #[derive(PartialOrd, Ord)] on ID / NodeID: lexicographic (lamport, peer).
IdLt(a, b) == a.lamport < b.lamport \/ (a.lamport = b.lamport /\ a.peer < b.peer)

EmptyMap == [x \in {} |-> NoneID]

\* HashMap::insert
Put(m, k, v) == [x \in (DOMAIN m) \cup {k} |-> IF x = k THEN v ELSE m[x]]

\* TreeOp::Create / TreeOp::Move wrapped in Op.  `counter` is the field
\* EvanTree::apply destructures from a Move (evan.rs:217-221).
CreateOp(id, parent) == [id |-> id, kind |-> "Create", parent |-> parent]

MoveOp(id, target, parent, counter) ==
    [id |-> id, kind |-> "Move", target |-> target, parent |-> parent, counter |-> counter]

\* Vec<Op>::sort / iter().min() under Ord for Op (by id only).
MinOp(S) == CHOOSE o \in S : \A x \in S : x.id = o.id \/ IdLt(o.id, x.id)

\* ops.sort(): a stable sort by id that keeps every element of the vector
RECURSIVE SortOps(_)
SortOps(s) ==
    IF Len(s) = 0 THEN <<>>
    ELSE LET rest == SortOps(SubSeq(s, 1, Len(s) - 1))
             op == s[Len(s)]
             k == Cardinality({i \in DOMAIN rest : ~IdLt(op.id, rest[i].id)})
         IN SubSeq(rest, 1, k) \o <<op>> \o SubSeq(rest, k + 1, Len(rest))

SeqToSet(s) == {s[i] : i \in 1 .. Len(s)}

RECURSIVE Perms(_)
Perms(S) == IF S = {} THEN {<<>>} ELSE UNION {{<<x>> \o p : p \in Perms(S \ {x})} : x \in S}

(***************************************************************************)
(* MovableTreeAlgorithm::is_ancestor_of (trait default, lib.rs:138-154).   *)
(* pm is the algorithm's parent(): node -> Option<NodeID>.  The walk that  *)
(* has taken more steps than there are keys is inside a cycle that does    *)
(* not hold maybe_ancestor and never returns: "hang".                      *)
(***************************************************************************)
ParentOf(pm, n) == IF n \in DOMAIN pm THEN pm[n] ELSE NoneID

RECURSIVE AncestorWalk(_, _, _, _)
AncestorWalk(pm, maybe_ancestor, node_id, fuel) ==
    LET parent == ParentOf(pm, node_id) IN
    IF parent = NoneID THEN "false"
    ELSE IF parent = maybe_ancestor THEN "true"
    ELSE IF parent = node_id THEN "loop detected"
    ELSE IF fuel = 0 THEN "hang"
    ELSE AncestorWalk(pm, maybe_ancestor, parent, fuel - 1)

is_ancestor_of(pm, maybe_ancestor, node_id) ==
    IF maybe_ancestor = node_id THEN "true"
    ELSE AncestorWalk(pm, maybe_ancestor, node_id, Cardinality(DOMAIN pm))

(***************************************************************************)
(* Algorithm-M: MartinTree (martin.rs).  Every routine returns the state   *)
(* together with `panic` ("none" when it returned normally).               *)
(***************************************************************************)
MartinNew == [tree |-> EmptyMap, sorted_ops |-> <<>>, applied_end |-> 0]

OpWrapper(op, old_parent) == [op |-> op, old_parent |-> old_parent]

\* Variant of MartinTree::mov that re-parents the target without the ancestor
\* test
MartinMov_NoCycleTest(m, target, parent) ==
    IF target \notin DOMAIN m.tree THEN [m |-> m, panic |-> "assert"]
    ELSE [m |-> [m EXCEPT !.tree = Put(m.tree, target, parent)], panic |-> "none"]

\* martin.rs:24-30
MartinMov(m, target, parent) ==
    IF target \notin DOMAIN m.tree THEN [m |-> m, panic |-> "assert"]
    ELSE LET r == is_ancestor_of(m.tree, target, parent) IN
         IF r = "true" THEN [m |-> m, panic |-> "none"]
         ELSE IF r = "false"
              THEN [m |-> [m EXCEPT !.tree = Put(m.tree, target, parent)], panic |-> "none"]
              ELSE [m |-> m, panic |-> r]

\* martin.rs:36-39 and 83-86: the Create arm
MartinCreate(tree, op) ==
    LET t1 == IF op.parent \in DOMAIN tree THEN tree ELSE Put(tree, op.parent, NoneID)
    IN Put(t1, op.id, op.parent)

\* martin.rs:32-48
RECURSIVE MartinApplyFrom(_, _)
MartinApplyFrom(m, i) ==
    IF i > Len(m.sorted_ops)
    THEN [m |-> [m EXCEPT !.applied_end = Len(m.sorted_ops)], panic |-> "none"]
    ELSE LET op == m.sorted_ops[i].op IN
         IF op.kind = "Create"
         THEN MartinApplyFrom([m EXCEPT !.tree = MartinCreate(m.tree, op)], i + 1)
         ELSE LET m1 == [m EXCEPT !.sorted_ops[i].old_parent = ParentOf(m.tree, op.target)]
                  r == MartinMov(m1, op.target, op.parent)
              IN IF r.panic # "none" THEN r ELSE MartinApplyFrom(r.m, i + 1)

apply_pending_ops(m) == MartinApplyFrom(m, m.applied_end + 1)

\* martin.rs:56-63: undo the drained wrappers, last first
RECURSIVE MartinUndo(_, _, _)
MartinUndo(tree, ans, k) ==
    IF k = 0 THEN tree
    ELSE LET w == ans[k] IN
         MartinUndo(IF w.op.kind = "Move" THEN Put(tree, w.op.target, w.old_parent) ELSE tree,
                    ans, k - 1)

\* Variant of revert_until that drains the wrappers without restoring the old
\* parents
revert_until_NoUndo(m, id) ==
    IF \E k \in 1 .. Len(m.sorted_ops) : m.sorted_ops[k].op.id = id
    THEN [m |-> m, popped |-> <<>>, panic |-> "unreachable"]
    ELSE LET trim_start == Cardinality({k \in 1 .. Len(m.sorted_ops) :
                                           IdLt(m.sorted_ops[k].op.id, id)})
             ans == SubSeq(m.sorted_ops, trim_start + 1, Len(m.sorted_ops))
             kept == SubSeq(m.sorted_ops, 1, trim_start)
         IN [m |-> [tree |-> m.tree, sorted_ops |-> kept, applied_end |-> Len(kept)],
             popped |-> [k \in 1 .. Len(ans) |-> ans[k].op],
             panic |-> "none"]

\* martin.rs:50-67.  binary_search_by_key on the id-sorted vector: Ok when the
\* id is present, else Err(number of entries with a smaller id).
revert_until(m, id) ==
    IF \E k \in 1 .. Len(m.sorted_ops) : m.sorted_ops[k].op.id = id
    THEN [m |-> m, popped |-> <<>>, panic |-> "unreachable"]
    ELSE LET trim_start == Cardinality({k \in 1 .. Len(m.sorted_ops) :
                                           IdLt(m.sorted_ops[k].op.id, id)})
             ans == SubSeq(m.sorted_ops, trim_start + 1, Len(m.sorted_ops))
             kept == SubSeq(m.sorted_ops, 1, trim_start)
         IN [m |-> [tree |-> MartinUndo(m.tree, ans, Len(ans)),
                    sorted_ops |-> kept,
                    applied_end |-> Len(kept)],
             popped |-> [k \in 1 .. Len(ans) |-> ans[k].op],
             panic |-> "none"]

\* martin.rs:79-96 (local apply)
MartinApply(m, op) ==
    LET old_parent == IF op.kind = "Move" THEN ParentOf(m.tree, op.target) ELSE NoneID
        r == IF op.kind = "Create"
             THEN [m |-> [m EXCEPT !.tree = MartinCreate(m.tree, op)], panic |-> "none"]
             ELSE MartinMov(m, op.target, op.parent)
    IN IF r.panic # "none" THEN r
       ELSE LET so == Append(r.m.sorted_ops, OpWrapper(op, old_parent))
            IN [m |-> [r.m EXCEPT !.sorted_ops = so, !.applied_end = Len(so)],
                panic |-> "none"]

\* Variant of merge that appends the incoming ops after the ops already applied
\* instead of reverting to the smallest incoming id
MartinMerge_NoRevert(m, ops) ==
    IF Len(ops) = 0 THEN [m |-> m, panic |-> "none"]
    ELSE LET sorted == SortOps(ops)
         IN apply_pending_ops([m EXCEPT !.sorted_ops =
                m.sorted_ops \o [k \in 1 .. Len(sorted) |-> OpWrapper(sorted[k], NoneID)]])

\* Variant of merge that pushes the incoming and the reverted ops without
\* sorting them
MartinMerge_NoSort(m, ops) ==
    IF Len(ops) = 0 THEN [m |-> m, panic |-> "none"]
    ELSE LET start_id == MinOp(SeqToSet(ops))
             rv == revert_until(m, start_id.id)
         IN IF rv.panic # "none" THEN [m |-> m, panic |-> rv.panic]
            ELSE LET unsorted == ops \o rv.popped
                     pushed == rv.m.sorted_ops \o
                               [k \in 1 .. Len(unsorted) |-> OpWrapper(unsorted[k], NoneID)]
                 IN apply_pending_ops([rv.m EXCEPT !.sorted_ops = pushed])

\* Variant of merge that does not put the reverted ops back
MartinMerge_DropPopped(m, ops) ==
    IF Len(ops) = 0 THEN [m |-> m, panic |-> "none"]
    ELSE LET start_id == MinOp(SeqToSet(ops))
             rv == revert_until(m, start_id.id)
         IN IF rv.panic # "none" THEN [m |-> m, panic |-> rv.panic]
            ELSE LET sorted == SortOps(ops)
                     pushed == rv.m.sorted_ops \o
                               [k \in 1 .. Len(sorted) |-> OpWrapper(sorted[k], NoneID)]
                 IN apply_pending_ops([rv.m EXCEPT !.sorted_ops = pushed])

\* martin.rs:98-113
MartinMerge(m, ops) ==
    IF Len(ops) = 0 THEN [m |-> m, panic |-> "none"]
    ELSE LET start_id == MinOp(SeqToSet(ops))
             rv == revert_until(m, start_id.id)
         IN IF rv.panic # "none" THEN [m |-> m, panic |-> rv.panic]
            ELSE LET sorted == SortOps(ops \o rv.popped)
                     pushed == rv.m.sorted_ops \o
                               [k \in 1 .. Len(sorted) |-> OpWrapper(sorted[k], NoneID)]
                 IN apply_pending_ops([rv.m EXCEPT !.sorted_ops = pushed])

(***************************************************************************)
(* Algorithm-E: EvanTree (evan.rs).  nodes: NodeID -> Node, where          *)
(* Node = [id, parent, edges] and edges: NodeID -> EdgeCounter.            *)
(***************************************************************************)
EdgeCounter(counter, lamport, peer) == [counter |-> counter, lamport |-> lamport, peer |-> peer]

EvanNode(id, parent, edges) == [id |-> id, parent |-> parent, edges |-> edges]

\* evan.rs:60-71
EvanNew == [nodes |-> Put(EmptyMap, ROOT_ID, EvanNode(ROOT_ID, NoneID, EmptyMap))]

\* evan.rs:21-32: the edge with the greatest (counter, parent id)
largest_edge(node) ==
    IF DOMAIN node.edges = {} THEN NoneID
    ELSE CHOOSE p \in DOMAIN node.edges :
            \A q \in DOMAIN node.edges :
                q = p \/ node.edges[q].counter < node.edges[p].counter
                      \/ (node.edges[q].counter = node.edges[p].counter /\ IdLt(q, p))

\* evan.rs:298-300 for every key
EvanParentMap(nodes) == [n \in DOMAIN nodes |-> nodes[n].parent]

\* evan.rs:153-171: "true", "false", "unwrap" when the tortoise has no parent,
\* or "hang" when the loop comes back to a (tortoise, hare) pair it has already
\* been in, which it then repeats forever
RECURSIVE FloydLoop(_, _, _, _, _)
FloydLoop(pm, other, tortoise, hare, seen) ==
    IF hare = NoneID \/ hare = other
    THEN (IF hare = other THEN "true" ELSE "false")
    ELSE IF tortoise = hare THEN "false"
    ELSE IF <<tortoise, hare>> \in seen THEN "hang"
    ELSE LET hare1 == ParentOf(pm, hare) IN
         IF hare1 = NoneID \/ hare1 = other
         THEN (IF hare1 = other THEN "true" ELSE "false")
         ELSE LET tortoise1 == ParentOf(pm, tortoise) IN
              IF tortoise1 = NoneID THEN "unwrap"
              ELSE FloydLoop(pm, other, tortoise1, ParentOf(pm, hare1),
                             seen \cup {<<tortoise, hare>>})

\* Variant of is_under_other without the test node == other
is_under_other_NoSelfTest(pm, node, other) ==
    FloydLoop(pm, other, node, ParentOf(pm, node), {})

is_under_other(pm, node, other) ==
    IF node = other THEN "true" ELSE FloydLoop(pm, other, node, ParentOf(pm, node), {})

\* evan.rs:92-100: the parent walk that collects a floating chain
RECURSIVE WalkUp(_, _, _)
WalkUp(pm, set, node_id) ==
    IF node_id = NoneID \/ node_id \in set THEN set
    ELSE WalkUp(pm, set \cup {node_id}, ParentOf(pm, node_id))

\* evan.rs:89-102, the nodes visited in the order `order`
RECURSIVE ScanNonRooted(_, _, _, _)
ScanNonRooted(pm, order, i, set) ==
    IF i > Len(order) THEN set
    ELSE LET n == order[i] IN
         ScanNonRooted(pm, order, i + 1,
                       IF n \notin set /\ is_under_other(pm, n, ROOT_ID) # "true"
                       THEN WalkUp(pm, set, n) ELSE set)

RECURSIVE SortIds(_)
SortIds(S) ==
    IF S = {} THEN <<>>
    ELSE LET m == CHOOSE x \in S : \A y \in S : y = x \/ IdLt(x, y)
         IN <<m>> \o SortIds(S \ {m})

\* evan.rs:38-43
PQItem(child, parent, counter) == [child |-> child, parent |-> parent, counter |-> counter]

\* evan.rs:51-58
PQLt(a, b) ==
    \/ a.counter < b.counter
    \/ a.counter = b.counter /\ IdLt(a.parent, b.parent)
    \/ a.counter = b.counter /\ a.parent = b.parent /\ IdLt(a.child, b.child)

\* evan.rs:133-149: pop the greatest ready edge until the heap is empty
RECURSIVE Reattach(_, _, _, _)
Reattach(nodes, non_rooted, ready, deferred) ==
    IF ready = {} THEN nodes
    ELSE LET top == CHOOSE x \in ready : \A y \in ready : y = x \/ PQLt(y, x)
             rest == ready \ {top}
         IN IF top.child \notin non_rooted
            THEN Reattach(nodes, non_rooted, rest, deferred)
            ELSE Reattach([nodes EXCEPT ![top.child].parent = top.parent],
                          non_rooted \ {top.child},
                          rest \cup {d \in deferred : d.parent = top.child},
                          {d \in deferred : d.parent # top.child})

\* Variant of recompute that stops after pointing every node at its largest
\* edge: the nodes cut off from ROOT are not re-attached
RecomputeIn_NoReattach(nodes, order) ==
    [nodes |-> [n \in DOMAIN nodes |-> [nodes[n] EXCEPT !.parent = largest_edge(nodes[n])]],
     panic |-> "none"]

\* Variant of recompute that keeps the parent pointers it finds instead of
\* resetting each to the node's largest edge
RecomputeIn_KeepParents(nodes, order) ==
    LET pm == EvanParentMap(nodes)
        non_rooted == ScanNonRooted(pm, order, 1, {})
    IN IF \E n \in DOMAIN nodes : is_under_other(pm, n, ROOT_ID) = "unwrap"
       THEN [nodes |-> nodes, panic |-> "unwrap"]
       ELSE IF ~(non_rooted \subseteq DOMAIN nodes)
       THEN [nodes |-> nodes, panic |-> "unwrap"]
       ELSE LET all == UNION {{PQItem(c, p, nodes[c].edges[p].counter) : p \in DOMAIN nodes[c].edges}
                              : c \in non_rooted}
                ready == {x \in all : x.parent \notin non_rooted}
            IN [nodes |-> Reattach(nodes, non_rooted, ready, all \ ready), panic |-> "none"]

\* Variant of recompute that first points every node at the edge with the
\* smallest parent id, whatever the counters
RecomputeIn_AnyEdge(nodes, order) ==
    LET n1 == [n \in DOMAIN nodes |->
                 [nodes[n] EXCEPT !.parent =
                     IF DOMAIN nodes[n].edges = {} THEN NoneID
                     ELSE CHOOSE q \in DOMAIN nodes[n].edges :
                              \A x \in DOMAIN nodes[n].edges : x = q \/ IdLt(q, x)]]
        pm == EvanParentMap(n1)
        non_rooted == ScanNonRooted(pm, order, 1, {})
    IN IF \E n \in DOMAIN n1 : is_under_other(pm, n, ROOT_ID) = "unwrap"
       THEN [nodes |-> n1, panic |-> "unwrap"]
       ELSE IF ~(non_rooted \subseteq DOMAIN n1)
       THEN [nodes |-> n1, panic |-> "unwrap"]
       ELSE LET all == UNION {{PQItem(c, q, n1[c].edges[q].counter) : q \in DOMAIN n1[c].edges}
                              : c \in non_rooted}
                ready == {x \in all : x.parent \notin non_rooted}
            IN [nodes |-> Reattach(n1, non_rooted, ready, all \ ready), panic |-> "none"]

\* evan.rs:78-151, the node map scanned in the order `order`
RecomputeIn(nodes, order) ==
    LET n1 == [n \in DOMAIN nodes |-> [nodes[n] EXCEPT !.parent = largest_edge(nodes[n])]]
        pm == EvanParentMap(n1)
        non_rooted == ScanNonRooted(pm, order, 1, {})
    IN IF \E n \in DOMAIN n1 : is_under_other(pm, n, ROOT_ID) = "unwrap"
       THEN [nodes |-> n1, panic |-> "unwrap"]
       ELSE IF \E n \in DOMAIN n1 : is_under_other(pm, n, ROOT_ID) = "hang"
       THEN [nodes |-> n1, panic |-> "hang"]
       ELSE IF ~(non_rooted \subseteq DOMAIN n1)
       THEN [nodes |-> n1, panic |-> "unwrap"]
       ELSE LET all == UNION {{PQItem(c, p, n1[c].edges[p].counter) : p \in DOMAIN n1[c].edges}
                              : c \in non_rooted}
                ready == {x \in all : x.parent \notin non_rooted}
            IN [nodes |-> Reattach(n1, non_rooted, ready, all \ ready), panic |-> "none"]

recompute_parent_children(nodes) == RecomputeIn(nodes, SortIds(DOMAIN nodes))

\* evan.rs:173-189
RECURSIVE EnsureWalk(_, _, _, _)
EnsureWalk(nodes, node, edits, fuel) ==
    IF node = NoneID \/ node \notin DOMAIN nodes THEN [edits |-> edits, panic |-> "none"]
    ELSE LET child == nodes[node]
             parent == child.parent
         IN IF parent = NoneID THEN [edits |-> edits, panic |-> "none"]
            ELSE IF fuel = 0 THEN [edits |-> edits, panic |-> "hang"]
            ELSE EnsureWalk(nodes, parent,
                            IF largest_edge(child) # parent
                            THEN Append(edits, <<node, parent>>) ELSE edits,
                            fuel - 1)

ensure_node_is_rooted(nodes, node, edits) ==
    EnsureWalk(nodes, node, edits, Cardinality(DOMAIN nodes))

\* evan.rs:200-216
EvanCreate(nodes, op) ==
    LET child == IF op.id \in DOMAIN nodes THEN nodes[op.id]
                 ELSE EvanNode(op.id, op.parent, EmptyMap)
    IN Put(nodes, op.id,
           [child EXCEPT !.edges = Put(child.edges, op.parent,
                                       EdgeCounter(0, op.id.lamport, op.id.peer))])

MaxOfSet(S) == CHOOSE x \in S : \A y \in S : y <= x

\* evan.rs:230-256: the edits applied in order; ans collects the returned ops
RECURSIVE EvanApplyEdits(_, _, _, _, _)
EvanApplyEdits(nodes, edits, i, op, ans) ==
    IF i > Len(edits) THEN [nodes |-> nodes, ans |-> ans, panic |-> "none"]
    ELSE LET child == edits[i][1]
             parent == edits[i][2]
         IN IF child \notin DOMAIN nodes THEN [nodes |-> nodes, ans |-> ans, panic |-> "unwrap"]
            ELSE LET es == nodes[child].edges
                     max_counter == IF DOMAIN es = {} THEN -1
                                    ELSE MaxOfSet({es[p].counter : p \in DOMAIN es})
                     edge == EdgeCounter(max_counter + 1, op.id.lamport, op.id.peer)
                 IN EvanApplyEdits([nodes EXCEPT ![child].edges = Put(es, parent, edge)],
                                   edits, i + 1, op,
                                   Append(ans, MoveOp(op.id, op.target, parent, max_counter + 1)))

\* evan.rs:257-258: the recomputed node map and the ops returned
Recomputed(rc, ans) == [nodes |-> rc.nodes, ans |-> ans, panic |-> rc.panic]

\* evan.rs:222-258: local Move
EvanLocalMove(nodes, op) ==
    LET old_parent == ParentOf(EvanParentMap(nodes), op.target)
        e1 == ensure_node_is_rooted(nodes, old_parent, <<>>)
        e2 == ensure_node_is_rooted(nodes, op.parent, e1.edits)
    IN IF e1.panic # "none" THEN [nodes |-> nodes, ans |-> <<>>, panic |-> e1.panic]
       ELSE IF e2.panic # "none" THEN [nodes |-> nodes, ans |-> <<>>, panic |-> e2.panic]
       ELSE LET r == EvanApplyEdits(nodes, Append(e2.edits, <<op.target, op.parent>>), 1, op, <<>>)
            IN IF r.panic # "none" THEN r
               ELSE Recomputed(recompute_parent_children(r.nodes), r.ans)

\* evan.rs:259-282: remote Move
EvanRemoteMove(nodes, op) ==
    IF op.target \notin DOMAIN nodes THEN [nodes |-> nodes, ans |-> <<>>, panic |-> "unwrap"]
    ELSE LET es == nodes[op.target].edges
             new == EdgeCounter(op.counter, op.id.lamport, op.id.peer)
             es1 == IF op.parent \in DOMAIN es
                    THEN LET old_counter == es[op.parent] IN
                         IF old_counter.lamport < op.id.lamport
                            \/ (old_counter.lamport = op.id.lamport /\ old_counter.peer < op.id.peer)
                         THEN Put(es, op.parent, new) ELSE es
                    ELSE Put(es, op.parent, new)
         IN [nodes |-> [nodes EXCEPT ![op.target].edges = es1], ans |-> <<>>, panic |-> "none"]

\* evan.rs:197-285: the tree left by apply and the ops it returns
EvanTreeOf(r) == [e |-> [nodes |-> r.nodes], ans |-> r.ans, panic |-> r.panic]

\* evan.rs:197-285
EvanApply(e, op, local) ==
    EvanTreeOf(IF op.kind = "Create"
               THEN [nodes |-> EvanCreate(e.nodes, op), ans |-> <<op>>, panic |-> "none"]
               ELSE IF local THEN EvanLocalMove(e.nodes, op)
               ELSE EvanRemoteMove(e.nodes, op))

\* evan.rs:287-292: apply every op as remote, then recompute
RECURSIVE EvanMergeFrom(_, _, _)
RECURSIVE EvanMergeStep(_, _, _, _)
EvanMergeFrom(e, ops, i) ==
    IF i > Len(ops)
    THEN EvanTreeOf(Recomputed(recompute_parent_children(e.nodes), <<>>))
    ELSE EvanMergeStep(e, ops, i, EvanApply(e, ops[i], FALSE))

\* evan.rs:288-290: one op applied; a panic ends the merge
EvanMergeStep(e, ops, i, r) ==
    IF r.panic # "none" THEN [e |-> e, ans |-> <<>>, panic |-> r.panic]
    ELSE EvanMergeFrom(r.e, ops, i + 1)

EvanMerge(e, ops) == EvanMergeFrom(e, ops, 1)

(***************************************************************************)
(* The replica facade MovableTree<T> (lib.rs:157-234), T being "martin" or *)
(* "evan".  Every call returns [tree, ret, panic]; create returns the new  *)
(* NodeID in `id` (ret = "id"), mov returns "Ok" or "Err", merge "unit".   *)
(***************************************************************************)
AlgNew(T) == IF T = "martin" THEN MartinNew ELSE EvanNew

\* The algorithm state a MartinTree / EvanTree call leaves
OfMartin(r) == [alg |-> r.m, panic |-> r.panic]

OfEvan(r) == [alg |-> r.e, panic |-> r.panic]

\* MovableTreeAlgorithm::apply
AlgApply(T, alg, op, local) ==
    IF T = "martin" THEN OfMartin(MartinApply(alg, op)) ELSE OfEvan(EvanApply(alg, op, local))

\* MovableTreeAlgorithm::merge
AlgMerge(T, alg, ops) ==
    IF T = "martin" THEN OfMartin(MartinMerge(alg, ops)) ELSE OfEvan(EvanMerge(alg, ops))

\* MovableTreeAlgorithm::parent for every key (martin.rs:119-121, evan.rs:298-300)
AlgParentMap(T, alg) == IF T = "martin" THEN alg.tree ELSE EvanParentMap(alg.nodes)

\* MovableTreeAlgorithm::nodes (martin.rs:115-117, evan.rs:294-296)
AlgNodes(T, alg) == IF T = "martin" THEN DOMAIN alg.tree ELSE DOMAIN alg.nodes

\* lib.rs:165-172
TreeNew(T, peer) ==
    [algorithm |-> AlgNew(T), peer |-> peer, ops |-> [x \in {} |-> <<>>], next_lamport |-> 0]

\* Variant of nodes() that does not filter ROOT out
TreeNodes_WithRoot(T, t) == AlgNodes(T, t.algorithm)

\* lib.rs:227-233
TreeNodes(T, t) == AlgNodes(T, t.algorithm) \ {ROOT_ID}

\* self.ops.entry(peer).or_default().push(op)
PushOp(ops, peer, op) ==
    Put(ops, peer, Append(IF peer \in DOMAIN ops THEN ops[peer] ELSE <<>>, op))

\* Variant of new_id that increments before it reads the clock
new_id_PreIncrement(t) == [id |-> [lamport |-> t.next_lamport + 1, peer |-> t.peer],
                           next_lamport |-> t.next_lamport + 1]

\* lib.rs:174-181: the id handed out; next_lamport advances by one
new_id(t) == [id |-> [lamport |-> t.next_lamport, peer |-> t.peer],
              next_lamport |-> t.next_lamport + 1]

\* lib.rs:186-193 and 199-206: the clock advanced, the op logged, the
\* algorithm's result stored
Issued(t, n, op, r, ret) ==
    [tree |-> [t EXCEPT !.next_lamport = n.next_lamport,
                        !.ops = PushOp(t.ops, t.peer, op),
                        !.algorithm = r.alg],
     ret |-> ret, id |-> n.id, panic |-> r.panic]

\* lib.rs:183-193
TreeCreate(T, t, parent) ==
    LET par == IF parent = NoneID THEN ROOT_ID ELSE parent
        n == new_id(t)
        op == CreateOp(n.id, par)
    IN Issued(t, n, op, AlgApply(T, t.algorithm, op, TRUE), "id")

\* Variant of mov that allocates the op id before the ancestor check
TreeMov_IdFirst(T, t, target, parent, counter) ==
    LET n == new_id(t)
        a == is_ancestor_of(AlgParentMap(T, t.algorithm), target, parent) IN
    IF a = "true" THEN [tree |-> [t EXCEPT !.next_lamport = n.next_lamport],
                        ret |-> "Err", id |-> NoneID, panic |-> "none"]
    ELSE IF a # "false" THEN [tree |-> t, ret |-> "Err", id |-> NoneID, panic |-> a]
    ELSE LET op == MoveOp(n.id, target, parent, counter)
         IN Issued(t, n, op, AlgApply(T, t.algorithm, op, TRUE), "Ok")

\* lib.rs:196-207.  `counter` is the counter field of the Move the facade logs:
\* the facade sets no counter (lib.rs:200-203), EvanTree reads one from the
\* logged op on the remote side (evan.rs:217-221, 260-279).
TreeMov(T, t, target, parent, counter) ==
    LET a == is_ancestor_of(AlgParentMap(T, t.algorithm), target, parent) IN
    IF a = "true" THEN [tree |-> t, ret |-> "Err", id |-> NoneID, panic |-> "none"]
    ELSE IF a # "false" THEN [tree |-> t, ret |-> "Err", id |-> NoneID, panic |-> a]
    ELSE LET n == new_id(t)
             op == MoveOp(n.id, target, parent, counter)
         IN Issued(t, n, op, AlgApply(T, t.algorithm, op, TRUE), "Ok")

\* Variant of the adoption loop that hands the ops to the algorithm without
\* recording them in the replica's own log
RECURSIVE AdoptTail_NoPush(_, _, _, _, _)
AdoptTail_NoPush(t, peer, ops, from, ans) ==
    IF from > Len(ops) THEN [tree |-> t, ans |-> ans]
    ELSE LET op == ops[from] IN
         AdoptTail_NoPush([t EXCEPT !.next_lamport = IF op.id.lamport >= t.next_lamport
                                                     THEN op.id.lamport + 1 ELSE t.next_lamport],
                          peer, ops, from + 1, Append(ans, op))

\* Variant of the adoption loop that leaves the Lamport clock alone
RECURSIVE AdoptTail_NoClock(_, _, _, _, _)
AdoptTail_NoClock(t, peer, ops, from, ans) ==
    IF from > Len(ops) THEN [tree |-> t, ans |-> ans]
    ELSE AdoptTail_NoClock([t EXCEPT !.ops = PushOp(t.ops, peer, ops[from])],
                           peer, ops, from + 1, Append(ans, ops[from]))

\* Variant of the adoption loop that adopts only the last op of the tail
AdoptTail_LastOnly(t, peer, ops, from, ans) ==
    IF from > Len(ops) THEN [tree |-> t, ans |-> ans]
    ELSE [tree |-> [t EXCEPT !.ops = PushOp(t.ops, peer, ops[Len(ops)]),
                             !.next_lamport = IF ops[Len(ops)].id.lamport >= t.next_lamport
                                              THEN ops[Len(ops)].id.lamport + 1
                                              ELSE t.next_lamport],
          ans |-> Append(ans, ops[Len(ops)])]

\* Variant of the adoption loop that raises the Lamport clock to the adopted
\* op's lamport instead of one past it
RECURSIVE AdoptTail_ClockAtOp(_, _, _, _, _)
AdoptTail_ClockAtOp(t, peer, ops, from, ans) ==
    IF from > Len(ops) THEN [tree |-> t, ans |-> ans]
    ELSE LET op == ops[from] IN
         AdoptTail_ClockAtOp([t EXCEPT !.ops = PushOp(t.ops, peer, op),
                                       !.next_lamport = IF op.id.lamport >= t.next_lamport
                                                        THEN op.id.lamport ELSE t.next_lamport],
                             peer, ops, from + 1, Append(ans, op))

\* lib.rs:215-221: the tail ops[from..] adopted one by one
RECURSIVE AdoptTail(_, _, _, _, _)
AdoptTail(t, peer, ops, from, ans) ==
    IF from > Len(ops) THEN [tree |-> t, ans |-> ans]
    ELSE LET op == ops[from] IN
         AdoptTail([t EXCEPT !.ops = PushOp(t.ops, peer, op),
                             !.next_lamport = IF op.id.lamport >= t.next_lamport
                                              THEN op.id.lamport + 1 ELSE t.next_lamport],
                   peer, ops, from + 1, Append(ans, op))

\* Variant of the log scan that adopts every op of the other replica, without
\* skipping the prefix already held
RECURSIVE MergeLogs_NoPrefix(_, _, _, _, _)
MergeLogs_NoPrefix(t, other, order, i, ans) ==
    IF i > Len(order) THEN [tree |-> t, ans |-> ans]
    ELSE LET r == AdoptTail(t, order[i], other.ops[order[i]], 1, ans)
         IN MergeLogs_NoPrefix(r.tree, other, order, i + 1, r.ans)

\* Variant of the log scan that starts each tail one op too late, so the first
\* unseen op of every peer is dropped
RECURSIVE MergeLogs_SkipFirst(_, _, _, _, _)
MergeLogs_SkipFirst(t, other, order, i, ans) ==
    IF i > Len(order) THEN [tree |-> t, ans |-> ans]
    ELSE LET peer == order[i]
             ops == other.ops[peer]
             self_start == IF peer \in DOMAIN t.ops THEN Len(t.ops[peer]) ELSE 0
             r == AdoptTail(t, peer, ops, self_start + 2, ans)
         IN MergeLogs_SkipFirst(r.tree, other, order, i + 1, r.ans)

\* lib.rs:211-223: other.ops iterated in the order `order`
RECURSIVE MergeLogs(_, _, _, _, _)
MergeLogs(t, other, order, i, ans) ==
    IF i > Len(order) THEN [tree |-> t, ans |-> ans]
    ELSE LET peer == order[i]
             ops == other.ops[peer]
             self_start == IF peer \in DOMAIN t.ops THEN Len(t.ops[peer]) ELSE 0
         IN IF Len(ops) > self_start
            THEN LET r == AdoptTail(t, peer, ops, self_start + 1, ans)
                 IN MergeLogs(r.tree, other, order, i + 1, r.ans)
            ELSE MergeLogs(t, other, order, i + 1, ans)

\* lib.rs:224: the algorithm's state after merging the adopted ops
Merged(t, r) == [tree |-> [t EXCEPT !.algorithm = r.alg], ret |-> "unit", panic |-> r.panic]

\* lib.rs:209-225
TreeMerge(T, t, other, order) ==
    LET l == MergeLogs(t, other, order, 1, <<>>)
    IN Merged(l.tree, AlgMerge(T, l.tree.algorithm, l.ans))

\* The iteration orders of other.ops (a HashMap) that merge may meet
MergeOrders(other) == Perms(DOMAIN other.ops)

(***************************************************************************)
(* TreeNode::from_state / build_tree (lib.rs:22-47): the rendered tree as  *)
(* the pre-order list of <<depth, id>>, children sorted ascending.         *)
(***************************************************************************)
Roots(state) == {n \in DOMAIN state : state[n] = NoneID}

RECURSIVE build_tree(_, _, _)
RECURSIVE BuildChildren(_, _, _)
build_tree(node_id, state, depth) ==
    <<<<depth, node_id>>>> \o
    BuildChildren(SortIds({n \in DOMAIN state : state[n] = node_id}), state, depth + 1)

BuildChildren(children, state, depth) ==
    IF children = <<>> THEN <<>>
    ELSE build_tree(Head(children), state, depth)
         \o BuildChildren(Tail(children), state, depth)

\* The renderings from_state can return: one per key that maps to None
\* (find_map takes the first such key in iteration order); none is the
\* expect("No root node found") panic.
Renderings(state) == {build_tree(r, state, 0) : r \in Roots(state)}

(***************************************************************************)
(* State.  T is the algorithm the replicas `tree` run (MovableTree<T>);    *)
(* `actors` are the fuzz harness's Actors, each holding a replica of both  *)
(* algorithms driven in lock-step (fuzz.rs:103-107).  `ret` is what the    *)
(* last call returned, `panicked` the panic that ended the run, and        *)
(* `limit` the number of Create and Move ops a run may issue.              *)
(***************************************************************************)
\* held is a history variable: for every op issued by create or mov, the ops
\* the issuing replica held at that moment
VARIABLES T, tree, actors, ret, panicked, limit, held

vars == <<T, tree, actors, ret, panicked, limit, held>>

\* fuzz.rs:109-116
ActorNew(peer) ==
    [peer |-> peer, martin_tree |-> TreeNew("martin", peer), evan_tree |-> TreeNew("evan", peer)]

InitT(t) ==
    /\ T = t
    /\ tree = [p \in Peers |-> TreeNew(IF t = "evan" THEN "evan" ELSE "martin", p)]
    /\ actors = [p \in Peers |-> ActorNew(p)]
    /\ ret = "new"
    /\ panicked = "none"
    /\ limit = [create |-> MaxCreate, move |-> MaxMove]
    /\ held = {}

Init == \E t \in {"martin", "evan"} : InitT(t)

InitActors == InitT("actors")

\* Ops of `kind` that the replicas have issued (each replica's own log)
OwnOps(trees, kind) ==
    UNION {{trees[p].ops[p][i] : i \in {j \in DOMAIN trees[p].ops[p] :
                                          trees[p].ops[p][j].kind = kind}}
           : p \in {q \in DOMAIN trees : q \in DOMAIN trees[q].ops}}

\* The counter a logged Move can carry; MartinTree reads none
Counters(t) == IF t = "evan" THEN 0 .. MaxCounter ELSE {0}

Finish(p, r) ==
    IF r.panic = "none"
    THEN /\ tree' = [tree EXCEPT ![p] = r.tree]
         /\ ret' = r.ret
         /\ panicked' = "none"
    ELSE /\ tree' = tree
         /\ ret' = "panic"
         /\ panicked' = r.panic

\* The ops that a completed create or mov on replica p added to its logs, each
\* recorded with the ops the replica held when it issued them
Remember(p, r) ==
    IF r.panic = "none"
    THEN held \cup {[op |-> o, had |-> UNION {SeqToSet(tree[p].ops[q]) : q \in DOMAIN tree[p].ops}]
                    : o \in UNION {SeqToSet(r.tree.ops[q]) : q \in DOMAIN r.tree.ops}
                            \ UNION {SeqToSet(tree[p].ops[q]) : q \in DOMAIN tree[p].ops}}
    ELSE held

\* MovableTree::create on replica p
Create(p, parent) ==
    /\ panicked = "none"
    /\ T \in {"martin", "evan"}
    /\ Cardinality(OwnOps(tree, "Create")) < limit.create
    /\ parent \in {NoneID} \cup TreeNodes(T, tree[p])
    /\ \E r \in {TreeCreate(T, tree[p], parent)} : Finish(p, r) /\ held' = Remember(p, r)
    /\ UNCHANGED <<T, actors, limit>>

\* MovableTree::mov on replica p
Mov(p, target, parent, counter) ==
    /\ panicked = "none"
    /\ T \in {"martin", "evan"}
    /\ target \in {ROOT_ID} \cup TreeNodes(T, tree[p])
    /\ parent \in {ROOT_ID} \cup TreeNodes(T, tree[p])
    /\ counter \in Counters(T)
    /\ \E r \in {TreeMov(T, tree[p], target, parent, counter)} :
          /\ r.ret = "Ok" => Cardinality(OwnOps(tree, "Move")) < limit.move
          /\ r.ret = "Err" => counter = 0
          /\ Finish(p, r)
          /\ held' = Remember(p, r)
    /\ UNCHANGED <<T, actors, limit>>

\* a.merge(&b)
Merge(a, b, order) ==
    /\ panicked = "none"
    /\ T \in {"martin", "evan"}
    /\ a # b
    /\ order \in MergeOrders(tree[b])
    /\ Finish(a, TreeMerge(T, tree[a], tree[b], order))
    /\ UNCHANGED <<T, actors, limit, held>>

AllNodes(t, trees) == UNION {TreeNodes(t, trees[p]) : p \in DOMAIN trees}

Next ==
    \/ \E p \in DOMAIN tree : \E parent \in {NoneID} \cup AllNodes(T, tree) : Create(p, parent)
    \/ \E p \in DOMAIN tree : \E target, parent \in {ROOT_ID} \cup AllNodes(T, tree) :
          \E counter \in 0 .. MaxCounter : Mov(p, target, parent, counter)
    \/ \E a, b \in DOMAIN tree : \E order \in MergeOrders(tree[b]) : Merge(a, b, order)

Spec == Init /\ [][Next]_vars

(***************************************************************************)
(* The fuzz harness's Actor (fuzz.rs:103-176): every call goes to the      *)
(* MartinTree replica and then to the EvanTree replica.                    *)
(***************************************************************************)
MartinTrees == [p \in DOMAIN actors |-> actors[p].martin_tree]

EvanTrees == [p \in DOMAIN actors |-> actors[p].evan_tree]

\* m and e are the results of the MartinTree and the EvanTree call; on_err is
\* the panic of unwrapping an EvanTree Err ("none": the result is not unwrapped)
FinishActor(p, m, e, on_err) ==
    IF m.panic # "none" \/ e.panic # "none" \/ (e.ret = "Err" /\ on_err # "none")
    THEN /\ actors' = actors
         /\ ret' = "panic"
         /\ panicked' = (IF m.panic # "none" THEN m.panic
                         ELSE IF e.panic # "none" THEN e.panic ELSE on_err)
    ELSE /\ actors' = [actors EXCEPT ![p].martin_tree = m.tree, ![p].evan_tree = e.tree]
         /\ ret' = m.ret
         /\ panicked' = "none"

\* fuzz.rs:151-160
ActorCreate(p, parent) ==
    /\ panicked = "none"
    /\ T = "actors"
    /\ Cardinality(OwnOps(MartinTrees, "Create")) < limit.create
    /\ LET nodes == TreeNodes("martin", actors[p].martin_tree)
       IN parent \in (IF nodes = {} THEN {NoneID} ELSE nodes)
    /\ FinishActor(p, TreeCreate("martin", actors[p].martin_tree, parent),
                      TreeCreate("evan", actors[p].evan_tree, parent), "none")
    /\ UNCHANGED <<T, tree, limit, held>>

\* fuzz.rs:161-172: the EvanTree move is made, and unwrapped, only when the
\* MartinTree move succeeded
ActorMove(p, target, parent, counter) ==
    /\ panicked = "none"
    /\ T = "actors"
    /\ target \in TreeNodes("martin", actors[p].martin_tree)
    /\ parent \in TreeNodes("martin", actors[p].martin_tree)
    /\ counter \in Counters("evan")
    /\ \E m \in {TreeMov("martin", actors[p].martin_tree, target, parent, 0)} :
          IF m.panic = "none" /\ m.ret = "Err"
          THEN /\ counter = 0
               /\ FinishActor(p, m, [tree |-> actors[p].evan_tree, ret |-> "Ok",
                                     panic |-> "none"], "none")
          ELSE /\ Cardinality(OwnOps(MartinTrees, "Move")) < limit.move
               /\ FinishActor(p, m, TreeMov("evan", actors[p].evan_tree, target, parent, counter),
                              "unwrap on Err")
    /\ UNCHANGED <<T, tree, limit, held>>

\* fuzz.rs:72-73, 77-78, 91-94: a.martin_tree.merge(&b.martin_tree);
\* a.evan_tree.merge(&b.evan_tree)
ActorMerge(a, b, morder, eorder) ==
    /\ panicked = "none"
    /\ T = "actors"
    /\ a # b
    /\ morder \in MergeOrders(actors[b].martin_tree)
    /\ eorder \in MergeOrders(actors[b].evan_tree)
    /\ FinishActor(a, TreeMerge("martin", actors[a].martin_tree, actors[b].martin_tree, morder),
                      TreeMerge("evan", actors[a].evan_tree, actors[b].evan_tree, eorder), "none")
    /\ UNCHANGED <<T, tree, limit, held>>

NextActors ==
    \/ \E p \in DOMAIN actors : \E parent \in {NoneID} \cup AllNodes("martin", MartinTrees) :
          ActorCreate(p, parent)
    \/ \E p \in DOMAIN actors : \E target, parent \in AllNodes("martin", MartinTrees) :
          \E counter \in 0 .. MaxCounter : ActorMove(p, target, parent, counter)
    \/ \E a, b \in DOMAIN actors :
          \E morder \in MergeOrders(actors[b].martin_tree) :
             \E eorder \in MergeOrders(actors[b].evan_tree) : ActorMerge(a, b, morder, eorder)

SpecActors == InitActors /\ [][NextActors]_vars

(***************************************************************************)
(* Vocabulary of the properties.                                           *)
(***************************************************************************)
\* The ops a replica holds in its per-peer logs
OpSet(t) == UNION {SeqToSet(t.ops[q]) : q \in DOMAIN t.ops}

ParentMapOf(t, r) == AlgParentMap(t, r.algorithm)

\* n reaches ROOT by following at most `fuel` parent links
RECURSIVE ReachesRoot(_, _, _)
ReachesRoot(pm, n, fuel) ==
    IF n = ROOT_ID THEN TRUE
    ELSE IF fuel = 0 \/ n \notin DOMAIN pm \/ pm[n] = NoneID THEN FALSE
    ELSE ReachesRoot(pm, pm[n], fuel - 1)

\* The proper ancestors of n in pm (the nodes met by following parent links)
RECURSIVE AncestorsOf(_, _, _)
AncestorsOf(pm, n, seen) ==
    LET q == ParentOf(pm, n) IN
    IF q = NoneID \/ q \in seen THEN seen ELSE AncestorsOf(pm, q, seen \cup {q})

\* target equals parent or is an ancestor of parent
WouldCycle(pm, target, parent) == target = parent \/ target \in AncestorsOf(pm, parent, {})

Occurrences(rendering, n) == Cardinality({i \in DOMAIN rendering : rendering[i][2] = n})

Callable(t, r) == {ROOT_ID} \cup TreeNodes(t, r)

Running == panicked = "none" /\ T \in {"martin", "evan"}

\* A Move of sorted_ops that the replay ignored: the last Move of its target,
\* and the target's parent is not the parent it names
MartinSkipped(m) ==
    \E k \in DOMAIN m.sorted_ops :
        LET op == m.sorted_ops[k].op IN
        /\ op.kind = "Move"
        /\ \A j \in DOMAIN m.sorted_ops :
              j > k => ~(m.sorted_ops[j].op.kind = "Move" /\ m.sorted_ops[j].op.target = op.target)
        /\ m.tree[op.target] # op.parent

\* A node that recompute re-attached under a parent that is not its largest edge
EvanRerooted(e) ==
    \E n \in DOMAIN e.nodes : n # ROOT_ID /\ e.nodes[n].parent # largest_edge(e.nodes[n])

\* The two trees of an actor list the same nodes and give each the same parent
SameTrees(a) ==
    /\ TreeNodes("martin", a.martin_tree) = TreeNodes("evan", a.evan_tree)
    /\ \A n \in TreeNodes("martin", a.martin_tree) :
          ParentOf(ParentMapOf("martin", a.martin_tree), n)
              = ParentOf(ParentMapOf("evan", a.evan_tree), n)

Disjoint(a, b) == OpSet(a) \cap OpSet(b) = {}

OwnLog(t) == IF t.peer \in DOMAIN t.ops THEN t.ops[t.peer] ELSE <<>>

(***************************************************************************)
(* C1 (Algorithm-M convergence).  Whenever two MartinTree replicas hold    *)
(* the same set of ops in their per-peer logs, whatever the interleaving   *)
(* of creates, moves and merges that led there, their parent maps are      *)
(* equal and so are their renderings.                                      *)
(***************************************************************************)
C1_MartinConvergence ==
    (Running /\ T = "martin") =>
        \A a, b \in DOMAIN tree :
            OpSet(tree[a]) = OpSet(tree[b]) =>
                /\ tree[a].algorithm.tree = tree[b].algorithm.tree
                /\ Renderings(tree[a].algorithm.tree) = Renderings(tree[b].algorithm.tree)

\* Two replicas have exchanged concurrent moves, one of which the replay ignored
C1_Witness ==
    /\ Running /\ T = "martin" /\ ret = "unit"
    /\ \E a, b \in DOMAIN tree :
          /\ a # b
          /\ OpSet(tree[a]) = OpSet(tree[b])
          /\ MartinSkipped(tree[a].algorithm)
          /\ \E o1, o2 \in OpSet(tree[a]) :
                o1.kind = "Move" /\ o2.kind = "Move" /\ o1.id.peer # o2.id.peer

(***************************************************************************)
(* C2 (Algorithm-E convergence).  Whenever two EvanTree replicas have      *)
(* observed the same set of ops, their edge sets and parent maps are       *)
(* equal.                                                                  *)
(***************************************************************************)
C2_EvanConvergence ==
    (Running /\ T = "evan") =>
        \A a, b \in DOMAIN tree :
            OpSet(tree[a]) = OpSet(tree[b]) =>
                tree[a].algorithm.nodes = tree[b].algorithm.nodes

(***************************************************************************)
(* C3 (algorithm equivalence).  Driving an Algorithm-E replica and an      *)
(* Algorithm-M replica of the same peer with the same actions yields, at   *)
(* every quiescent point, the same nodes with the same parents.            *)
(***************************************************************************)
C3_AlgorithmEquivalence ==
    (panicked = "none" /\ T = "actors") =>
        \A p \in DOMAIN actors : SameTrees(actors[p])

(***************************************************************************)
(* C4 (tree-ness).  In every reachable state of every replica, partial     *)
(* one-directional merges included, every key of the parent map other than *)
(* ROOT reaches ROOT by following parent links, and every node of nodes()  *)
(* appears exactly once in the rendering.                                  *)
(***************************************************************************)
C4_TreeNess ==
    Running =>
        \A p \in DOMAIN tree :
            LET pm == ParentMapOf(T, tree[p]) IN
            /\ \A n \in DOMAIN pm \ {ROOT_ID} : ReachesRoot(pm, n, Cardinality(DOMAIN pm))
            /\ \A n \in TreeNodes(T, tree[p]) :
                  /\ Renderings(pm) # {}
                  /\ \A r \in Renderings(pm) : Occurrences(r, n) = 1

\* A merge left an EvanTree with a node re-attached away from its largest edge
C4_Witness ==
    /\ Running /\ T = "evan" /\ ret = "unit"
    /\ \E p \in DOMAIN tree : EvanRerooted(tree[p].algorithm)

(***************************************************************************)
(* C5 (root invariant).  In every reachable state, the state right after   *)
(* new included, ROOT is a key of the parent map, it maps to None, and no  *)
(* other key maps to None.                                                 *)
(***************************************************************************)
C5_RootInvariant ==
    Running =>
        \A p \in DOMAIN tree :
            LET pm == ParentMapOf(T, tree[p]) IN
            /\ ROOT_ID \in DOMAIN pm
            /\ pm[ROOT_ID] = NoneID
            /\ \A n \in DOMAIN pm : pm[n] = NoneID => n = ROOT_ID

(***************************************************************************)
(* C6 (no cycle from a local move).  On every reachable replica, a call    *)
(* move(target, parent) in which target equals parent, or target is an     *)
(* ancestor of parent in the replica's current parent map, returns the     *)
(* cycle error and leaves the whole replica (tree, logs, next_lamport)     *)
(* unchanged.                                                              *)
(***************************************************************************)
C6_LocalMoveNoCycle ==
    Running =>
        \A p \in DOMAIN tree :
            \A target, parent \in Callable(T, tree[p]) :
                \A counter \in 0 .. MaxCounter :
                    WouldCycle(ParentMapOf(T, tree[p]), target, parent) =>
                        LET r == TreeMov(T, tree[p], target, parent, counter) IN
                        r.panic = "none" /\ r.ret = "Err" /\ r.tree = tree[p]

\* A move was rejected on a replica where some node has a proper descendant
C6_Witness ==
    /\ Running /\ ret = "Err"
    /\ \E p \in DOMAIN tree :
          \E target, parent \in TreeNodes(T, tree[p]) :
              target # parent /\ target \in AncestorsOf(ParentMapOf(T, tree[p]), parent, {})

(***************************************************************************)
(* C7 (successful local move).  On every reachable replica, a call         *)
(* move(target, parent) that would not create a cycle returns success,     *)
(* appends exactly one Move op, stamped {next_lamport before the call,     *)
(* the replica's peer}, to the replica's own log and to no other log, and  *)
(* afterwards parent(target) = parent.                                     *)
(***************************************************************************)
C7_LocalMoveSucceeds ==
    Running =>
        \A p \in DOMAIN tree :
            \A target, parent \in Callable(T, tree[p]) :
                \A counter \in 0 .. MaxCounter :
                    ~WouldCycle(ParentMapOf(T, tree[p]), target, parent) =>
                        LET r == TreeMov(T, tree[p], target, parent, counter)
                            old == OwnLog(tree[p])
                        IN /\ r.panic = "none" /\ r.ret = "Ok"
                           /\ DOMAIN r.tree.ops = DOMAIN tree[p].ops \cup {tree[p].peer}
                           /\ \A q \in DOMAIN tree[p].ops \ {tree[p].peer} :
                                 r.tree.ops[q] = tree[p].ops[q]
                           /\ Len(OwnLog(r.tree)) = Len(old) + 1
                           /\ SubSeq(OwnLog(r.tree), 1, Len(old)) = old
                           /\ LET o == OwnLog(r.tree)[Len(old) + 1] IN
                                 /\ o.kind = "Move"
                                 /\ o.id = [lamport |-> tree[p].next_lamport, peer |-> tree[p].peer]
                                 /\ o.target = target /\ o.parent = parent
                           /\ ParentOf(ParentMapOf(T, r.tree), target) = parent

\* A move has just succeeded on a replica that also holds ops of another peer
C7_Witness ==
    /\ Running /\ ret = "Ok"
    /\ \E p \in DOMAIN tree :
          LET log == OwnLog(tree[p]) IN
          /\ Len(log) > 0
          /\ log[Len(log)].kind = "Move"
          /\ log[Len(log)].id.lamport = tree[p].next_lamport - 1
          /\ ParentOf(ParentMapOf(T, tree[p]), log[Len(log)].target) = log[Len(log)].parent
          /\ log[Len(log)].parent # ROOT_ID
          /\ \E o \in OpSet(tree[p]) : o.id.peer # tree[p].peer

(***************************************************************************)
(* C8 (merge idempotence).  Merging the same replica b into a twice in a   *)
(* row leaves a's full state (tree, logs, next_lamport) as it was after    *)
(* the first merge.                                                        *)
(***************************************************************************)
C8_MergeIdempotent ==
    Running =>
        \A a, b \in DOMAIN tree :
            \A o1 \in MergeOrders(tree[b]) :
                LET r1 == TreeMerge(T, tree[a], tree[b], o1) IN
                (a # b /\ r1.panic = "none") =>
                    \A o2 \in MergeOrders(tree[b]) :
                        LET r2 == TreeMerge(T, r1.tree, tree[b], o2) IN
                        r2.panic = "none" /\ r2.tree = r1.tree

\* A merge has just run, and the replica merged from holds moves the first
\* merge of it into some other replica would adopt
C8_Witness ==
    /\ Running /\ ret = "unit"
    /\ \E a, b \in DOMAIN tree :
          /\ a # b
          /\ \E o \in OpSet(tree[b]) \ OpSet(tree[a]) : o.kind = "Move"
          /\ OpSet(tree[a]) # {}

(***************************************************************************)
(* C9 (merge commutativity for disjoint histories).  For replicas a and b  *)
(* with disjoint op histories, a.merge(b); b.merge(a) and                  *)
(* b.merge(a); a.merge(b) give the same final parent map and the same set  *)
(* of logged ops on a, and likewise on b.                                  *)
(***************************************************************************)
C9_MergeCommutes ==
    Running =>
        \A a, b \in DOMAIN tree :
            (a # b /\ Disjoint(tree[a], tree[b])) =>
                \A oa \in MergeOrders(tree[a]), ob \in MergeOrders(tree[b]) :
                    LET a1 == TreeMerge(T, tree[a], tree[b], ob)
                        b2 == TreeMerge(T, tree[b], tree[a], oa)
                    IN (a1.panic = "none" /\ b2.panic = "none") =>
                          \A oa1 \in MergeOrders(a1.tree), ob2 \in MergeOrders(b2.tree) :
                              LET b1 == TreeMerge(T, tree[b], a1.tree, oa1)
                                  a2 == TreeMerge(T, tree[a], b2.tree, ob2)
                              IN (b1.panic = "none" /\ a2.panic = "none") =>
                                    /\ ParentMapOf(T, a1.tree) = ParentMapOf(T, a2.tree)
                                    /\ OpSet(a1.tree) = OpSet(a2.tree)
                                    /\ ParentMapOf(T, b1.tree) = ParentMapOf(T, b2.tree)
                                    /\ OpSet(b1.tree) = OpSet(b2.tree)

\* Two replicas with disjoint histories, each with a node and a move of its own
C9_Witness ==
    /\ Running
    /\ \E a, b \in DOMAIN tree :
          /\ a # b
          /\ Disjoint(tree[a], tree[b])
          /\ \E o \in OpSet(tree[a]) : o.kind = "Move"
          /\ \E o \in OpSet(tree[b]) : o.kind = "Move"

(***************************************************************************)
(* C10 (Lamport monotonicity).  After every create, move (accepted or      *)
(* rejected) and merge, the replica's next_lamport is greater than the     *)
(* lamport of every op in any of its per-peer logs.                        *)
(***************************************************************************)
C10_LamportMonotone ==
    Running =>
        \A p \in DOMAIN tree :
            \A o \in OpSet(tree[p]) : o.id.lamport < tree[p].next_lamport

\* A merge moved the clock of a replica past the ops it has issued itself
C10_Witness ==
    /\ Running /\ ret = "unit"
    /\ \E p \in DOMAIN tree :
          /\ \A i \in DOMAIN OwnLog(tree[p]) : OwnLog(tree[p])[i].id.lamport + 1 < tree[p].next_lamport
          /\ \E o \in OpSet(tree[p]) : o.id.lamport + 1 = tree[p].next_lamport

\* s is a prefix of t
IsPrefix(s, t) == Len(s) <= Len(t) /\ SubSeq(t, 1, Len(s)) = s

\* Every log of `old` is a prefix of the log `new` keeps for the same peer
Extends(old, new) ==
    \A q \in DOMAIN old.ops : q \in DOMAIN new.ops /\ IsPrefix(old.ops[q], new.ops[q])

\* ops[q] holds ops of peer q only, strictly increasing by lamport
LogsOrdered(t) ==
    \A q \in DOMAIN t.ops :
        /\ \A i \in DOMAIN t.ops[q] : t.ops[q][i].id.peer = q
        /\ \A i, j \in DOMAIN t.ops[q] : i < j => t.ops[q][i].id.lamport < t.ops[q][j].id.lamport

\* No two distinct ops of S carry the same id
UniqueIds(S) == \A o1, o2 \in S : o1.id = o2.id => o1 = o2

\* The ops held anywhere
AllOps == UNION {OpSet(tree[p]) : p \in DOMAIN tree}

\* What EvanTree::apply returns for the local move mov(target, parent) on t
Emitted(t, target, parent, counter) ==
    EvanApply(t.algorithm, MoveOp(new_id(t).id, target, parent, counter), TRUE).ans

\* Every call create / mov / merge on replica p leaves a replica whose logs
\* extend the logs of p
AppendOnly(p) ==
    /\ \A parent \in {NoneID} \cup TreeNodes(T, tree[p]) :
          Extends(tree[p], TreeCreate(T, tree[p], parent).tree)
    /\ \A target, parent \in Callable(T, tree[p]) : \A counter \in 0 .. MaxCounter :
          Extends(tree[p], TreeMov(T, tree[p], target, parent, counter).tree)
    /\ \A b \in DOMAIN tree \ {p} : \A order \in MergeOrders(tree[b]) :
          Extends(tree[p], TreeMerge(T, tree[p], tree[b], order).tree)

(***************************************************************************)
(* C11 (per-peer log order and id uniqueness).  On every reachable         *)
(* replica each log ops[p] holds only ops of peer p, is strictly           *)
(* increasing by lamport and only grows by appending; and no two distinct  *)
(* ops carry the same id, among the ops of all logs together with the ops  *)
(* Algorithm-E returns when it expands a local move into several.          *)
(***************************************************************************)
C11_LogOrderAndUniqueIds ==
    Running =>
        /\ \A p \in DOMAIN tree : LogsOrdered(tree[p]) /\ AppendOnly(p)
        /\ UniqueIds(AllOps)
        /\ T = "evan" =>
              \A p \in DOMAIN tree :
                  \A target, parent \in Callable(T, tree[p]) : \A counter \in 0 .. MaxCounter :
                      ~WouldCycle(ParentMapOf(T, tree[p]), target, parent) =>
                          LET ans == Emitted(tree[p], target, parent, counter) IN
                          \A i, j \in DOMAIN ans : ans[i].id = ans[j].id => i = j

\* Number of log entries of a replica, all peers together
LogSize(t) == Cardinality(UNION {{<<q, i>> : i \in DOMAIN t.ops[q]} : q \in DOMAIN t.ops})

(* C12: merge absorbs all unseen ops.  For replicas a # b and every iteration
   order of b's logs, the batch a.merge(&b) hands to the algorithm holds exactly
   the ops of b that a did not hold, each once; and when the call completes,
   a's op set is the union of the two op sets, with no op lost and none twice
   in a's logs. *)
C12_MergeAbsorbsUnseen ==
    Running =>
        \A a, b \in DOMAIN tree : a # b =>
            \A order \in MergeOrders(tree[b]) :
                LET l == MergeLogs(tree[a], tree[b], order, 1, <<>>)
                    r == TreeMerge(T, tree[a], tree[b], order)
                    unseen == OpSet(tree[b]) \ OpSet(tree[a])
                IN /\ SeqToSet(l.ans) = unseen
                   /\ Len(l.ans) = Cardinality(unseen)
                   /\ r.panic = "none" =>
                         /\ OpSet(r.tree) = OpSet(tree[a]) \cup OpSet(tree[b])
                         /\ LogSize(r.tree) = Cardinality(OpSet(r.tree))

\* A merge has just completed on a replica that now holds ops of both peers,
\* and the other replica still lacks some of them
C12_Witness ==
    /\ Running
    /\ ret = "unit"
    /\ \E a, b \in DOMAIN tree :
          /\ a # b
          /\ OwnLog(tree[a]) # <<>>
          /\ OwnLog(tree[b]) # <<>>
          /\ OpSet(tree[b]) \subseteq OpSet(tree[a])
          /\ OpSet(tree[b]) # OpSet(tree[a])
          /\ \E order \in MergeOrders(tree[a]) :
                MergeLogs(tree[b], tree[a], order, 1, <<>>).ans # <<>>


\* Three replicas, so that a replica can merge from one that relays a third
\* replica's ops
NumPeers3 == 3
MaxCreate3 == 1
MaxMove3 == 1

Init3 ==
    /\ T \in {"martin", "evan"}
    /\ tree = [p \in 0 .. NumPeers3 - 1 |-> TreeNew(T, p)]
    /\ actors = [p \in Peers |-> ActorNew(p)]
    /\ ret = "new"
    /\ panicked = "none"
    /\ limit = [create |-> MaxCreate3, move |-> MaxMove3]
    /\ held = {}

Spec3 == Init3 /\ [][Next]_vars

(* C13: merge never fails.  For replicas a # b, a.merge(&b) completes without
   a panic, a failed assertion or an unreachable branch, whatever the order in
   which b's logs are iterated; a batch in which a Move precedes the Create of
   its target, and a remote Move that would close a cycle, are absorbed. *)
C13_MergeNeverFails ==
    Running =>
        \A a, b \in DOMAIN tree : a # b =>
            \A order \in MergeOrders(tree[b]) :
                TreeMerge(T, tree[a], tree[b], order).panic = "none"

\* The same statement for Algorithm-M alone
C13_MartinMergeNeverFails == T = "martin" => C13_MergeNeverFails


\* NodeIDs of the Create ops in a replica's per-peer logs
CreatedIds(t) == {o.id : o \in {x \in OpSet(t) : x.kind = "Create"}}

\* nodes() of a replica is exactly the NodeIDs created in its logs
NodesAreCreated(t) == ROOT_ID \notin TreeNodes(T, t) /\ TreeNodes(T, t) = CreatedIds(t)

\* A call that completed from replica `old` kept every listed node and left
\* nodes() equal to the created NodeIDs
KeepsNodes(old, r) ==
    r.panic = "none" => TreeNodes(T, old) \subseteq TreeNodes(T, r.tree) /\ NodesAreCreated(r.tree)

\* Every mov and merge that replica p can run next keeps the listing exact
MovMergeKeepNodes(p) ==
    /\ \A target, parent \in Callable(T, tree[p]) : \A counter \in Counters(T) :
          KeepsNodes(tree[p], TreeMov(T, tree[p], target, parent, counter))
    /\ \A b \in DOMAIN tree \ {p} : \A order \in MergeOrders(tree[b]) :
          KeepsNodes(tree[p], TreeMerge(T, tree[p], tree[b], order))

(* C14 as stated: in every reachable state of a replica of either algorithm,
   nodes() never contains ROOT and equals the NodeIDs of the Create ops in the
   replica's logs, and every create (under any NodeID or none), mov and merge
   keeps the nodes already listed and adds no node that no Create op names. *)
C14_NodesExactlyCreated ==
    Running =>
        \A p \in DOMAIN tree :
            /\ NodesAreCreated(tree[p])
            /\ MovMergeKeepNodes(p)
            /\ \A parent \in {NoneID} \cup AllNodes(T, tree) :
                  KeepsNodes(tree[p], TreeCreate(T, tree[p], parent))

(* C14, amended: the same, for create calls whose parent is absent (ROOT) or a
   node listed by the issuing replica. *)
C14_NodesCreatedUnderKnownParents ==
    Running =>
        \A p \in DOMAIN tree :
            /\ NodesAreCreated(tree[p])
            /\ MovMergeKeepNodes(p)
            /\ \A parent \in {NoneID} \cup TreeNodes(T, tree[p]) :
                  KeepsNodes(tree[p], TreeCreate(T, tree[p], parent))

\* A replica lists a node created by the other replica under a node of its own,
\* after a move of its own
C14_Witness ==
    /\ Running
    /\ \E p \in DOMAIN tree :
          /\ \E o \in OpSet(tree[p]) : /\ o.kind = "Create" /\ o.id.peer # p
                                       /\ o.parent # ROOT_ID /\ o.parent.peer = p
                                       /\ o.id \in TreeNodes(T, tree[p])
          /\ \E o \in OpSet(tree[p]) : o.kind = "Move" /\ o.id.peer = p


\* parent(n) and the parents of the other nodes after the exchange: both
\* replicas agree on parent(n), it is p1 or p2, and no other node moved
OneWinner(a, b, a2, b2, n, p1, p2) ==
    LET pa == ParentOf(ParentMapOf(T, a2), n)
        pb == ParentOf(ParentMapOf(T, b2), n)
    IN /\ pa = pb
       /\ pa \in {p1, p2}
       /\ \A m \in TreeNodes(T, a) \ {n} :
             ParentOf(ParentMapOf(T, a2), m) = ParentOf(ParentMapOf(T, a), m)
       /\ \A m \in TreeNodes(T, b) \ {n} :
             ParentOf(ParentMapOf(T, b2), m) = ParentOf(ParentMapOf(T, b), m)

\* a.mov(n, p1) and b.mov(n, p2) on replicas with the same history, then
\* a.merge(&b); b.merge(&a)
ConcurrentMoves(a, b, n, p1, p2, ca, cb) ==
    LET a1 == TreeMov(T, a, n, p1, ca)
        b1 == TreeMov(T, b, n, p2, cb)
    IN (a1.ret = "Ok" /\ b1.ret = "Ok" /\ a1.panic = "none" /\ b1.panic = "none") =>
          \A oa \in MergeOrders(b1.tree) :
              LET a2 == TreeMerge(T, a1.tree, b1.tree, oa)
              IN a2.panic = "none" =>
                    \A ob \in MergeOrders(a2.tree) :
                        LET b2 == TreeMerge(T, b1.tree, a2.tree, ob)
                        IN b2.panic = "none" =>
                              OneWinner(a, b, a2.tree, b2.tree, n, p1, p2)

(* C15: concurrent moves of one node.  Two replicas with the same history each
   move the same node n, to different parents p1 and p2 that are not
   descendants of n, and no other op is issued; after a.merge(&b); b.merge(&a)
   both replicas have the same parent(n), which is p1 or p2, and every other
   node has the parent it had before. *)
C15_ConcurrentMoves ==
    Running =>
        \A a, b \in DOMAIN tree :
            (a # b /\ OpSet(tree[a]) = OpSet(tree[b])) =>
                \A n \in TreeNodes(T, tree[a]) :
                    \A p1, p2 \in Callable(T, tree[a]) \ {n} :
                        (/\ p1 # p2
                         /\ ~WouldCycle(ParentMapOf(T, tree[a]), n, p1)
                         /\ ~WouldCycle(ParentMapOf(T, tree[a]), n, p2)
                         /\ ~WouldCycle(ParentMapOf(T, tree[b]), n, p1)
                         /\ ~WouldCycle(ParentMapOf(T, tree[b]), n, p2)) =>
                            \A ca, cb \in Counters(T) :
                                ConcurrentMoves(tree[a], tree[b], n, p1, p2, ca, cb)


\* The log a replica keeps for peer q (empty if it has none)
LogOf(t, q) == IF q \in DOMAIN t.ops THEN t.ops[q] ELSE <<>>

\* Replica t holds, with every op it holds, the ops the issuer held when
\* issuing it
CausallyClosed(t) == \A h \in held : h.op \in OpSet(t) => h.had \subseteq OpSet(t)

(* C16: prefix consistency of logs.  In every reachable global state (the
   replicas have distinct peer IDs), for every two replicas a and b and every
   peer q, the shorter of a.ops[q] and b.ops[q] is a prefix of the longer, and
   each replica's op set is causally closed: it contains every op that the
   issuer held when issuing any op the replica holds. *)
C16_PrefixConsistency ==
    Running =>
        /\ \A a, b \in DOMAIN tree : \A q \in DOMAIN tree :
              \/ IsPrefix(LogOf(tree[a], q), LogOf(tree[b], q))
              \/ IsPrefix(LogOf(tree[b], q), LogOf(tree[a], q))
        /\ \A a \in DOMAIN tree : CausallyClosed(tree[a])

\* Replica a holds a proper, non-empty prefix of b's own log, and holds an op
\* of b that b issued while holding an op of a
C16_Witness ==
    /\ Running
    /\ \E a, b \in DOMAIN tree :
          /\ a # b
          /\ LogOf(tree[a], b) # <<>>
          /\ Len(LogOf(tree[a], b)) < Len(LogOf(tree[b], b))
          /\ \E h \in held : /\ h.op \in SeqToSet(LogOf(tree[a], b))
                             /\ \E o \in h.had : o.id.peer = a


\* The NodeIDs an op refers to
Refs(o) == IF o.kind = "Create" THEN {o.parent} ELSE {o.target, o.parent}

\* Every non-ROOT NodeID that an op of replica t refers to is the id of a
\* Create op of t with a strictly smaller lamport
RefsCreatedEarlier(t) ==
    \A o \in OpSet(t) : \A n \in Refs(o) \ {ROOT_ID} :
        \E c \in OpSet(t) : c.kind = "Create" /\ c.id = n /\ c.id.lamport < o.id.lamport

\* No call that replica p can run next, on NodeIDs it lists, fails the
\* assertion of MartinTree::mov
NoAssertFails(p) ==
    /\ \A parent \in {NoneID} \cup TreeNodes(T, tree[p]) :
          TreeCreate(T, tree[p], parent).panic # "assert"
    /\ \A target, parent \in Callable(T, tree[p]) : \A counter \in Counters(T) :
          TreeMov(T, tree[p], target, parent, counter).panic # "assert"
    /\ \A b \in DOMAIN tree \ {p} : \A order \in MergeOrders(tree[b]) :
          TreeMerge(T, tree[p], tree[b], order).panic # "assert"

(* C17: ID order respects causality.  When callers pass only NodeIDs present
   on the issuing replica, every non-ROOT NodeID referenced by an op a replica
   holds (a Create's parent, a Move's target and parent) is the id of a Create
   op with a strictly smaller lamport that the replica also holds; hence the
   assertion in MartinTree::mov that the target exists never fails. *)
C17_IdOrderRespectsCausality ==
    Running => \A p \in DOMAIN tree : RefsCreatedEarlier(tree[p]) /\ NoAssertFails(p)

\* A replica holds a Move of the other replica whose target and parent are two
\* nodes created by different replicas
C17_Witness ==
    /\ Running
    /\ \E p \in DOMAIN tree : \E o \in OpSet(tree[p]) :
          /\ o.kind = "Move"
          /\ o.id.peer # p
          /\ o.target # ROOT_ID /\ o.parent # ROOT_ID
          /\ o.target.peer # o.parent.peer


\* sorted_ops strictly increasing by op.id, and every op applied
MartinLogOrdered(m) ==
    /\ \A i, j \in DOMAIN m.sorted_ops :
          i < j => IdLt(m.sorted_ops[i].op.id, m.sorted_ops[j].op.id)
    /\ m.applied_end = Len(m.sorted_ops)

(* C18: Algorithm-M log order.  After every completed create, move and merge
   on an Algorithm-M replica, sorted_ops is strictly increasing by op.id (so
   it holds no id twice), both after a local apply that pushes at the end and
   after an undo-splice-redo merge, and applied_end equals sorted_ops.len(). *)
C18_MartinLogOrder ==
    (Running /\ T = "martin") => \A p \in DOMAIN tree : MartinLogOrdered(tree[p].algorithm)

\* A merge has just spliced an op of the other replica between two ops of the
\* replica's own
C18_Witness ==
    /\ Running /\ T = "martin"
    /\ ret = "unit"
    /\ \E p \in DOMAIN tree :
          LET so == tree[p].algorithm.sorted_ops
          IN \E i \in DOMAIN so : /\ i > 1 /\ i < Len(so)
                                  /\ so[i].op.id.peer # p
                                  /\ so[i - 1].op.id.peer = p
                                  /\ so[i + 1].op.id.peer = p


\* The parent map obtained from the map pm by applying the ops of the wrappers
\* ws[i..] in order: a Create sets the new node's parent, a Move sets the
\* target's parent unless the target is the parent or one of its ancestors
RECURSIVE Replay(_, _, _)
Replay(ws, i, pm) ==
    IF i > Len(ws) THEN pm
    ELSE LET op == ws[i].op IN
         Replay(ws, i + 1,
                IF op.kind = "Create" THEN Put(pm, op.id, op.parent)
                ELSE IF WouldCycle(pm, op.target, op.parent) THEN pm
                ELSE Put(pm, op.target, op.parent))

\* The replica's parent map gives every node the parent that the replay of
\* sorted_ops from the empty map gives it
EqualsReplay(m) ==
    LET pm == Replay(m.sorted_ops, 1, EmptyMap)
    IN \A n \in DOMAIN m.tree \cup DOMAIN pm : ParentOf(m.tree, n) = ParentOf(pm, n)

(* C19: Algorithm-M equals full replay.  After every completed create, move
   and merge on an Algorithm-M replica, the parent map is the map obtained by
   starting from an empty tree and applying all ops of sorted_ops in ascending
   id order, where a Create sets the new node's parent and a Move sets the
   target's parent unless the target is an ancestor of, or equal to, the
   parent at that point of the replay; the undo-splice-redo of merge never
   yields another map. *)
C19_MartinEqualsReplay ==
    (Running /\ T = "martin") => \A p \in DOMAIN tree : EqualsReplay(tree[p].algorithm)

\* A merge has just spliced an op before a Move that the replica had applied,
\* and the merged log holds a Move that is not in effect and would close a cycle
\* in the resulting map
C19_Witness ==
    /\ Running /\ T = "martin"
    /\ ret = "unit"
    /\ \E p \in DOMAIN tree :
          LET so == tree[p].algorithm.sorted_ops
          IN /\ \E i, j \in DOMAIN so : /\ i < j
                                        /\ so[i].op.id.peer # p
                                        /\ so[j].op.id.peer = p
                                        /\ so[j].op.kind = "Move"
             /\ \E k \in DOMAIN so :
                   /\ so[k].op.kind = "Move"
                   /\ WouldCycle(Replay(so, 1, EmptyMap), so[k].op.target, so[k].op.parent)
                   /\ ParentOf(tree[p].algorithm.tree, so[k].op.target) # so[k].op.parent


\* The ops of sorted_ops
SortedOpSet(m) == {m.sorted_ops[i].op : i \in DOMAIN m.sorted_ops}

(* C20: Algorithm-M never loses an op.  After every completed create, move and
   merge on an Algorithm-M replica, the set of op IDs in sorted_ops equals the
   set of op IDs in the union of the replica's per-peer logs (and the ops with
   these IDs are the same): ops undone during a merge are all re-inserted, and
   Moves skipped as cycle-inducing stay in sorted_ops. *)
C20_MartinKeepsEveryOp ==
    (Running /\ T = "martin") =>
        \A p \in DOMAIN tree :
            /\ {o.id : o \in SortedOpSet(tree[p].algorithm)} = {o.id : o \in OpSet(tree[p])}
            /\ SortedOpSet(tree[p].algorithm) = OpSet(tree[p])

\* A merge has just reverted and re-inserted a Move of the replica's own, and
\* sorted_ops holds a Move that the replay skipped
C20_Witness ==
    /\ Running /\ T = "martin"
    /\ ret = "unit"
    /\ \E p \in DOMAIN tree :
          LET so == tree[p].algorithm.sorted_ops
          IN /\ \E i, j \in DOMAIN so : /\ i < j
                                        /\ so[i].op.id.peer # p
                                        /\ so[j].op.id.peer = p
                                        /\ so[j].op.kind = "Move"
             /\ MartinSkipped(tree[p].algorithm)


\* The (child, parent) pairs of the edge records an Algorithm-E replica stores
EdgePairs(t) ==
    UNION {{<<c, p>> : p \in DOMAIN t.algorithm.nodes[c].edges} : c \in DOMAIN t.algorithm.nodes}

\* The ops in the logs of replica t that assert the pair (child, parent)
Asserting(t, child, parent) ==
    {o \in OpSet(t) : \/ o.kind = "Create" /\ o.id = child /\ o.parent = parent
                      \/ o.kind = "Move" /\ o.target = child /\ o.parent = parent}

MaxById(S) == CHOOSE o \in S : \A x \in S : x.id = o.id \/ IdLt(x.id, o.id)

\* Every stored edge carries the (lamport, peer) of the largest op asserting
\* its pair and that op's counter (0 for a Create), and every asserted pair is
\* stored
EdgesAreLastWriter(t) ==
    /\ \A x \in EdgePairs(t) :
          LET e == t.algorithm.nodes[x[1]].edges[x[2]]
              S == Asserting(t, x[1], x[2])
          IN /\ S # {}
             /\ e.lamport = MaxById(S).id.lamport
             /\ e.peer = MaxById(S).id.peer
             /\ e.counter = (IF MaxById(S).kind = "Create" THEN 0 ELSE MaxById(S).counter)
    /\ \A o \in OpSet(t) :
          <<IF o.kind = "Create" THEN o.id ELSE o.target, o.parent>> \in EdgePairs(t)

\* A completed call kept every edge of the replica and left last-writer edges
EdgesKept(old, r) ==
    r.panic = "none" => EdgePairs(old) \subseteq EdgePairs(r.tree) /\ EdgesAreLastWriter(r.tree)

(* C21: Algorithm-E edge records are last-writer-wins and monotone.  In every
   reachable state of an Algorithm-E replica, and after every create, move and
   merge it can run next, an edge (child, parent) once stored is still stored,
   and its (lamport, peer) is the largest (lamport, peer) among the ops the
   replica holds (local or remote, Create or Move) that assert this pair, its
   counter being the counter of that op. *)
C21_EdgesLastWriterWins ==
    (Running /\ T = "evan") =>
        \A p \in DOMAIN tree :
            /\ EdgesAreLastWriter(tree[p])
            /\ \A parent \in {NoneID} \cup TreeNodes(T, tree[p]) :
                  EdgesKept(tree[p], TreeCreate(T, tree[p], parent))
            /\ \A target, parent \in Callable(T, tree[p]) : \A counter \in Counters(T) :
                  EdgesKept(tree[p], TreeMov(T, tree[p], target, parent, counter))
            /\ \A b \in DOMAIN tree \ {p} : \A order \in MergeOrders(tree[b]) :
                  EdgesKept(tree[p], TreeMerge(T, tree[p], tree[b], order))


\* The node map with the parent pointers replaced by prev and the (lamport,
\* peer) stamps of the edge records erased: nodes, edges and counters are kept
SameEdges(nodes, prev) ==
    [n \in DOMAIN nodes |->
        EvanNode(n, prev[n],
                 [q \in DOMAIN nodes[n].edges |-> EdgeCounter(nodes[n].edges[q].counter, 0, 0)])]

\* The comparisons recompute relies on never tie: the edges of a node under
\* largest_edge's order, the queue items of the node map under PQItem::cmp
OrdersAreTotal(nodes) ==
    /\ \A n \in DOMAIN nodes : \A q1, q2 \in DOMAIN nodes[n].edges :
          q1 # q2 => (nodes[n].edges[q1].counter # nodes[n].edges[q2].counter
                      \/ IdLt(q1, q2) \/ IdLt(q2, q1))
    /\ LET items == UNION {{PQItem(c, q, nodes[c].edges[q].counter) : q \in DOMAIN nodes[c].edges}
                           : c \in DOMAIN nodes}
       IN \A x, y \in items : x # y => (PQLt(x, y) \/ PQLt(y, x))

\* Recompute of the same nodes and edges, scanned in `order` from the parent
\* pointers prev, yields the parent map ref
SameOutcome(nodes, prev, order, ref) ==
    LET r == RecomputeIn(SameEdges(nodes, prev), order)
    IN r.panic = "none" /\ EvanParentMap(r.nodes) = EvanParentMap(ref.nodes)

\* Recompute yields the same parent map from the same nodes and edges: for
\* every scan order together with every previous parent of the nodes other
\* than ROOT, and for every previous parent of ROOT
RecomputeDeterministic(nodes) ==
    LET ref == recompute_parent_children(nodes)
        others == DOMAIN nodes \ {ROOT_ID}
    IN ref.panic = "none" =>
          /\ \A order \in Perms(DOMAIN nodes) :
                \A prev \in [others -> DOMAIN nodes \cup {NoneID}] :
                    SameOutcome(nodes, [n \in DOMAIN nodes |-> IF n \in others THEN prev[n] ELSE NoneID],
                                order, ref)
          /\ \A root_prev \in DOMAIN nodes \cup {NoneID} :
                SameOutcome(nodes, [n \in DOMAIN nodes |-> IF n = ROOT_ID THEN root_prev
                                                          ELSE nodes[n].parent],
                            SortIds(DOMAIN nodes), ref)

(* C22: recompute is deterministic in the edge set.  For the node map of every
   Algorithm-E replica, the parent map produced by recompute_parent_children
   depends only on the nodes and their edge records (child, parent, counter):
   it is the same for every order in which the node map is scanned, for every
   previous value of the parent pointers and for every (lamport, peer) stamp;
   and no two edges of a node and no two queue items compare equal, so the
   iteration order of an edge map, of the floating set and the insertion order
   into the priority queue cannot matter. *)
C22_RecomputeDeterministic ==
    (Running /\ T = "evan") =>
        \A p \in DOMAIN tree :
            /\ OrdersAreTotal(tree[p].algorithm.nodes)
            /\ RecomputeDeterministic(tree[p].algorithm.nodes)

\* A replica holds two nodes whose largest edges point at each other, so that
\* recompute had a floating cycle to re-attach
C22_Witness ==
    /\ Running /\ T = "evan"
    /\ \E p \in DOMAIN tree : \E c, d \in TreeNodes(T, tree[p]) :
          /\ c # d
          /\ largest_edge(tree[p].algorithm.nodes[c]) = d
          /\ largest_edge(tree[p].algorithm.nodes[d]) = c


\* The edge records of an Algorithm-E node map
EdgesOf(nodes) == [n \in DOMAIN nodes |-> nodes[n].edges]

\* Every op of ans is a Move naming an edge that `nodes` stores with the op's
\* counter, lamport and peer
OpsNameStoredEdges(ans, nodes) ==
    \A i \in DOMAIN ans :
        /\ ans[i].kind = "Move"
        /\ ans[i].target \in DOMAIN nodes
        /\ ans[i].parent \in DOMAIN nodes[ans[i].target].edges
        /\ nodes[ans[i].target].edges[ans[i].parent]
              = EdgeCounter(ans[i].counter, ans[i].id.lamport, ans[i].id.peer)

\* The ops returned by the accepted local move describe the edits made by it
ExpansionDescribesEdits(t, target, parent, counter) ==
    LET r == TreeMov(T, t, target, parent, counter)
        ans == Emitted(t, target, parent, counter)
        remote == EvanMerge(t.algorithm, ans)
    IN (r.ret = "Ok" /\ r.panic = "none") =>
          /\ OpsNameStoredEdges(ans, r.tree.algorithm.nodes)
          /\ Len(ans) > 0
          /\ ans[Len(ans)].target = target /\ ans[Len(ans)].parent = parent
          /\ remote.panic = "none"
          /\ EdgesOf(remote.e.nodes) = EdgesOf(r.tree.algorithm.nodes)

(* C23: expanded ops describe the local edits.  When a local Move on
   Algorithm-E is expanded by root-path amplification, each returned op
   Move{target, parent, counter} names an edge (target, parent) that the
   replica has just stored with that counter and the op's (lamport, peer), the
   real (target -> parent) edit is last, and applying the returned ops as
   remote ops to a replica that had the same edge set before yields the edge
   set of the issuing replica. *)
C23_ExpandedOpsDescribeEdits ==
    (Running /\ T = "evan") =>
        \A p \in DOMAIN tree : \A target, parent \in Callable(T, tree[p]) :
            \A counter \in Counters(T) :
                ExpansionDescribesEdits(tree[p], target, parent, counter)


\* A deeper run of two replicas: three nodes and three moves.  To keep it
\* small, replica 0 alone creates nodes, directly under ROOT, and a logged Move
\* carries the largest counter of Counters.
MaxCreateDeep == 3
MaxMoveDeep == 3

InitDeep ==
    /\ T \in {"martin", "evan"}
    /\ tree = [p \in Peers |-> TreeNew(T, p)]
    /\ actors = [p \in Peers |-> ActorNew(p)]
    /\ ret = "new"
    /\ panicked = "none"
    /\ limit = [create |-> MaxCreateDeep, move |-> MaxMoveDeep]
    /\ held = {}

NextDeep ==
    \/ Create(0, NoneID)
    \/ \E p \in DOMAIN tree : \E target, parent \in AllNodes(T, tree) :
          Mov(p, target, parent, MaxOfSet(Counters(T)))
    \/ \E a, b \in DOMAIN tree : \E order \in MergeOrders(tree[b]) : Merge(a, b, order)

SpecDeep == InitDeep /\ [][NextDeep]_vars

\* The accepted move gave no node other than target another parent
OnlyTargetMoved(t, target, parent, counter) ==
    LET r == TreeMov(T, t, target, parent, counter)
    IN (r.ret = "Ok" /\ r.panic = "none") =>
          \A n \in AlgNodes(T, t.algorithm) \ {target} :
              ParentOf(ParentMapOf(T, r.tree), n) = ParentOf(ParentMapOf(T, t), n)

(* C24: a successful local move changes only the target.  On every reachable
   replica state of either algorithm, after a successful move(target, parent)
   the parent of every node other than target is the one it had before the
   call; for Algorithm-E this includes the nodes that were attached to a
   parent other than their largest edge. *)
C24_MoveChangesOnlyTarget ==
    Running =>
        \A p \in DOMAIN tree : \A target, parent \in Callable(T, tree[p]) :
            \A counter \in Counters(T) :
                OnlyTargetMoved(tree[p], target, parent, counter)


\* The same statement for Algorithm-M alone
C24_MartinMoveChangesOnlyTarget == T = "martin" => C24_MoveChangesOnlyTarget

\* n reaches ROOT by following largest edges only
RECURSIVE LargestReachesRoot(_, _, _)
LargestReachesRoot(nodes, n, seen) ==
    IF n = ROOT_ID THEN TRUE
    ELSE IF n = NoneID \/ n \in seen \/ n \notin DOMAIN nodes THEN FALSE
    ELSE LargestReachesRoot(nodes, largest_edge(nodes[n]), seen \cup {n})

\* Every non-ROOT node has one of its recorded parents as parent, and its
\* largest edge if that leads to ROOT over largest edges
ParentsFromEdges(t) ==
    LET nodes == t.algorithm.nodes
    IN \A n \in DOMAIN nodes \ {ROOT_ID} :
          /\ nodes[n].parent \in DOMAIN nodes[n].edges
          /\ LargestReachesRoot(nodes, n, {}) => nodes[n].parent = largest_edge(nodes[n])

\* A completed call left parents that come from the edge set
LeavesParentsFromEdges(r) == r.panic = "none" => ParentsFromEdges(r.tree)

(* C25: Algorithm-E parents come from the edge set.  In every reachable state
   of an Algorithm-E replica, and after every create, move and merge it can run
   next, every non-ROOT node has a parent that is one of the parents recorded
   in its own edge map, and every node that reaches ROOT by following largest
   edges only has its largest edge, the edge with the maximum (counter, parent
   NodeID) pair, as parent. *)
C25_ParentsFromEdgeSet ==
    (Running /\ T = "evan") =>
        \A p \in DOMAIN tree :
            /\ ParentsFromEdges(tree[p])
            /\ \A parent \in {NoneID} \cup TreeNodes(T, tree[p]) :
                  LeavesParentsFromEdges(TreeCreate(T, tree[p], parent))
            /\ \A target, parent \in Callable(T, tree[p]) : \A counter \in Counters(T) :
                  LeavesParentsFromEdges(TreeMov(T, tree[p], target, parent, counter))
            /\ \A b \in DOMAIN tree \ {p} : \A order \in MergeOrders(tree[b]) :
                  LeavesParentsFromEdges(TreeMerge(T, tree[p], tree[b], order))

\* A merge left a replica with a node re-attached under an older edge, below
\* a node that hangs on its largest edge
C25_Witness ==
    /\ Running /\ T = "evan"
    /\ \E p \in DOMAIN tree :
          LET nodes == tree[p].algorithm.nodes
          IN \E n, m \in DOMAIN nodes \ {ROOT_ID} :
                /\ nodes[n].parent # largest_edge(nodes[n])
                /\ nodes[m].parent = n
                /\ nodes[m].parent = largest_edge(nodes[m])
                /\ ~LargestReachesRoot(nodes, m, {})

\* The ancestor walk of move(target, parent) on replica t ends with an answer,
\* and the call returns Ok or Err
GuardAnswers(t, target, parent, counter) ==
    /\ is_ancestor_of(AlgParentMap(T, t.algorithm), target, parent) \in {"true", "false"}
    /\ LET r == TreeMov(T, t, target, parent, counter)
       IN r.panic = "none" /\ r.ret \in {"Ok", "Err"}

(* C26: the local move guard always answers.  In every reachable state of a
   replica of either algorithm, the ancestor walk run by move(target, parent)
   for existing nodes terminates and never hits the self-parent 'loop detected'
   panic, so move returns either success or the cycle error. *)
C26_MoveGuardAnswers ==
    Running =>
        \A p \in DOMAIN tree : \A target, parent \in Callable(T, tree[p]) :
            \A counter \in Counters(T) : GuardAnswers(tree[p], target, parent, counter)

\* After a merge that brought a Move of the other replica, a replica has a
\* node two steps below ROOT: the walk from it takes more than one step, one
\* move of it is accepted and the move of its parent below it is refused
C26_Witness ==
    /\ Running
    /\ ret = "unit"
    /\ \E p \in DOMAIN tree : \E c, d \in TreeNodes(T, tree[p]) :
          /\ \E o \in OpSet(tree[p]) : o.kind = "Move" /\ o.id.peer # p
          /\ ParentOf(ParentMapOf(T, tree[p]), d) = c
          /\ ParentOf(ParentMapOf(T, tree[p]), c) = ROOT_ID
          /\ TreeMov(T, tree[p], d, ROOT_ID, 0).ret = "Ok"
          /\ TreeMov(T, tree[p], c, d, 0).ret = "Err"

\* Parent maps for the ancestor test: ROOT and FloydNodes other nodes, each
\* with no parent or any of the nodes as parent, so that chains, self-parents
\* and cycles of every length up to FloydNodes + 1 occur
FloydNodes == 3

FloydIds == {ROOT_ID} \cup {[lamport |-> i, peer |-> 0] : i \in 0 .. FloydNodes - 1}

\* The variable tree holds the parent map under test, ret the last answer
InitFloyd ==
    /\ T = "floyd"
    /\ tree \in [FloydIds -> FloydIds \cup {NoneID}]
    /\ actors = [p \in Peers |-> ActorNew(p)]
    /\ ret = "new"
    /\ panicked = "none"
    /\ limit = [create |-> 0, move |-> 0]
    /\ held = {}

\* EvanTree::is_under_other(node, other) on the parent map
Floyd(node, other) ==
    /\ T = "floyd"
    /\ ret' = is_under_other(tree, node, other)
    /\ UNCHANGED <<T, tree, actors, panicked, limit, held>>

NextFloyd == \E node, other \in DOMAIN tree : Floyd(node, other)

SpecFloyd == InitFloyd /\ [][NextFloyd]_vars

(* C27: Floyd ancestor test.  For every Algorithm-E parent map, maps with
   cycles of any length included, is_under_other(node, other) terminates, and
   it returns true exactly when node equals other or other is reached from
   node by following parent links. *)
C27_FloydAncestorTest ==
    T = "floyd" =>
        /\ ret \in {"new", "true", "false"}
        /\ \A node, other \in DOMAIN tree :
              is_under_other(tree, node, other)
                  = (IF node = other \/ other \in AncestorsOf(tree, node, {})
                     THEN "true" ELSE "false")

\* The test has just answered false on a map in which the parents of three
\* nodes form a cycle
C27_Witness ==
    /\ T = "floyd"
    /\ ret = "false"
    /\ \E a, b, c \in DOMAIN tree :
          /\ a # b /\ b # c /\ a # c
          /\ tree[a] = b /\ tree[b] = c /\ tree[c] = a

\* On actor a, the EvanTree replica accepts the move whenever the MartinTree
\* replica does
AcceptanceAgrees(a, target, parent, counter) ==
    LET m == TreeMov("martin", a.martin_tree, target, parent, 0)
        e == TreeMov("evan", a.evan_tree, target, parent, counter)
    IN (m.panic = "none" /\ m.ret = "Ok") => (e.panic = "none" /\ e.ret = "Ok")

(* C28: move acceptance agrees across algorithms.  When an Algorithm-M replica
   and an Algorithm-E replica with the same peer ID have been driven by the
   same sequence of create/move/merge actions, every local move(target,
   parent) that the Algorithm-M replica accepts is also accepted by the
   Algorithm-E replica, so the harness's unwrap of the Algorithm-E result
   never fails. *)
C28_MoveAcceptanceAgrees ==
    T = "actors" =>
        /\ panicked # "unwrap on Err"
        /\ panicked = "none" =>
              \A p \in DOMAIN actors :
                 \A target, parent \in TreeNodes("martin", actors[p].martin_tree) :
                    \A counter \in Counters("evan") :
                       AcceptanceAgrees(actors[p], target, parent, counter)

====
